---- MODULE Spec2Model ----
(***************************************************************************)
(* Model of the relay server of src/src/server.ts: the two registries      *)
(* (windowsClients, webClients), the socket handlers and the HTTP          *)
(* endpoints, with every emit a handler makes recorded in `out`.           *)
(***************************************************************************)
EXTENDS Integers, Sequences, FiniteSets, TLC

\* ------------------------------------------------------------------------
\* Bounds of the model
\* ------------------------------------------------------------------------

\* The producers push at most NumSnapshots different screenshots.
NumSnapshots == 2

\* Where the deliveries are recorded, a connection sends watch_pc only while it has
\* been sent fewer than NumSnapshots + MaxReplays screenshots.
MaxReplays == 2

\* socket.id of the connections the transport accepts
Sockets == {"s1", "s2"}

\* ------------------------------------------------------------------------
\* JavaScript values of loosely typed payload fields: a type tag and the
\* result of String(x).
\* ------------------------------------------------------------------------

Undefined == [t |-> "undefined", s |-> "undefined"]

Null == [t |-> "null", s |-> "null"]

Str(x) == [t |-> "string", s |-> x]

Num0 == [t |-> "number", s |-> "0"]

JsTrue == [t |-> "boolean", s |-> "true"]

JsFalse == [t |-> "boolean", s |-> "false"]

\* ToBoolean(v): what `if (v)`, `!v` and `v || w` test.
Truthy(v) ==
  CASE v.t = "undefined" -> FALSE
    [] v.t = "null" -> FALSE
    [] v.t = "string" -> v.s # ""
    [] v.t = "number" -> v.s \notin {"0", "NaN"}
    [] v.t = "boolean" -> v.s = "true"
    [] OTHER -> TRUE

\* a || b
JsOr(a, b) == IF Truthy(a) THEN a ELSE b

\* String(v)
String(v) == Str(v.s)

\* ------------------------------------------------------------------------
\* Inputs
\* ------------------------------------------------------------------------

\* clientId a producer gives in client_type (absent: the socket id is used)
GivenClientIds == {Undefined, Str("pcA")}

\* every key windowsClients can hold
ProducerIds == {Str("pcA")} \cup {Str(s) : s \in Sockets}

\* clientId of a request: absent, empty, or a producer id
RequestIds == {Undefined, Str(""), Str("pcA")}

\* clientId of watch_pc
WatchIds == {Str("pcA"), Str("s1")}

Hostnames == {Undefined}

\* the payloads of client_type; only the windows branch reads clientId and hostname
ClientTypeData ==
  {[type |-> "windows", clientId |-> c, hostname |-> h] : c \in GivenClientIds, h \in Hostnames}
    \cup {[type |-> ty, clientId |-> Undefined, hostname |-> Undefined] : ty \in {"web", "other"}}

Texts == {Undefined, Str(""), Num0, Str("hi")}

Visibles == {JsFalse}

Commands == {Str("cmd")}

Images == <<"i1", "i2", "i3">>

Timestamps == <<200, 100, 200>>

\* the payloads of screen_update: a later push may carry an earlier timestamp
PushData == {[image |-> Images[i], timestamp |-> Timestamps[i]] : i \in 1..NumSnapshots}

\* ------------------------------------------------------------------------
\* Map<K, V>: entries in insertion order
\* ------------------------------------------------------------------------

MapKeys(m) == [i \in 1..Len(m) |-> m[i].key]

MapValues(m) == [i \in 1..Len(m) |-> m[i].val]

MapHas(m, k) == \E i \in 1..Len(m) : m[i].key = k

MapIndex(m, k) == CHOOSE i \in 1..Len(m) : m[i].key = k

MapGet(m, k) == m[MapIndex(m, k)].val

\* Map.prototype.set as delete-then-insert: an existing key moves to the end
MapSetMoveToEnd(m, k, v) ==
  Append(SelectSeq(m, LAMBDA e : e.key # k), [key |-> k, val |-> v])

\* Map.prototype.set as insert-if-absent: an existing key keeps its old value
MapSetKeepFirst(m, k, v) ==
  IF \E i \in 1..Len(m) : m[i].key = k THEN m ELSE Append(m, [key |-> k, val |-> v])

\* Map.prototype.set: an existing key keeps its place, a new key is appended
MapSet(m, k, v) ==
  IF MapHas(m, k)
    THEN [m EXCEPT ![MapIndex(m, k)] = [key |-> k, val |-> v]]
    ELSE Append(m, [key |-> k, val |-> v])

\* Map.prototype.delete
MapDelete(m, k) == SelectSeq(m, LAMBDA e : e.key # k)

\* ------------------------------------------------------------------------
\* State
\* ------------------------------------------------------------------------

VARIABLES
  conn,            \* socket id -> "open" | "closed"
  windowsClients,  \* Map<clientId, WindowsClient>
  webClients,      \* Map<socket.id, WebClient>
  last,            \* the event the last handler handled
  replaced,        \* what the last handler overwrote: <<>> or <<the old value>>
  out,             \* the emits of the last handler, in order
  res,             \* the HTTP response of the last handler
  log              \* what an observer of the connections has recorded so far

vars == <<conn, windowsClients, webClients, last, replaced, out, res, log>>

NoRes == [status |-> 0]

Emit(to, event, payload) == [to |-> to, event |-> event, payload |-> payload]

Event(op, socket, data) == [op |-> op, socket |-> socket, data |-> data]

NoData == [none |-> TRUE]

\* the record of an observer that has seen nothing
NoLog ==
  [orphans |-> {},
   left |-> <<>>,
   superseded |-> {},
   lists |-> [c \in {} |-> <<>>],
   pushes |-> <<>>,
   deliveries |-> [c \in {} |-> <<>>]]

Init ==
  /\ conn = [s \in Sockets |-> "open"]
  /\ windowsClients = <<>>
  /\ webClients = <<>>
  /\ last = Event("init", "", NoData)
  /\ replaced = <<>>
  /\ out = <<>>
  /\ res = NoRes
  /\ log = NoLog

\* ------------------------------------------------------------------------
\* Projections and fan-out loops
\* ------------------------------------------------------------------------

\* ScreenshotData
Screenshot(image, timestamp, clientId) ==
  [t |-> "object", s |-> "[object Object]",
   image |-> image, timestamp |-> timestamp, clientId |-> clientId]

\* the list item of pc_list_update
PcItem(client) ==
  [clientId |-> client.clientId,
   hostname |-> client.hostname,
   hasScreenshot |-> Truthy(client.lastScreenshot)]

\* Array.from(windowsClients.values()).map(...)
PcList(wins) == [i \in 1..Len(wins) |-> PcItem(wins[i].val)]

\* the list item of GET /connected-pcs
ConnectedPcItem(client) ==
  [clientId |-> client.clientId,
   socketId |-> client.socketId,
   hostname |-> JsOr(client.hostname, Str("Unknown PC")),
   hasScreenshot |-> Truthy(client.lastScreenshot)]

ConnectedPcList(wins) == [i \in 1..Len(wins) |-> ConnectedPcItem(wins[i].val)]

\* broadcastPCList() that leaves out the web client registered last
BroadcastPCListButLast(wins, webs) ==
  [i \in 1..(Len(webs) - 1) |->
     Emit(webs[i].val.socketId, "pc_list_update", [pcs |-> PcList(wins)])]

\* broadcastPCList(): the list goes to every web client
BroadcastPCList(wins, webs) ==
  [i \in 1..Len(webs) |-> Emit(webs[i].val.socketId, "pc_list_update", [pcs |-> PcList(wins)])]

\* the forEach loop with its first entry skipped
EmitToAllButFirst(wins, event, payload) ==
  [i \in 1..(Len(wins) - 1) |-> Emit(wins[i + 1].val.socketId, event, payload)]

\* windowsClients.forEach(client => client.socket.emit(event, payload))
EmitToAll(wins, event, payload) ==
  [i \in 1..Len(wins) |-> Emit(wins[i].val.socketId, event, payload)]

\* client.socket.emit(event, payload) for the client stored under clientId
EmitToOne(wins, clientId, event, payload) ==
  <<Emit(MapGet(wins, clientId).socketId, event, payload)>>

\* the index of the first entry of windowsClients whose socketId is s, 0 if none
FindBySocket(wins, s) ==
  IF \E i \in 1..Len(wins) : wins[i].val.socketId = s
    THEN CHOOSE i \in 1..Len(wins) :
           /\ wins[i].val.socketId = s
           /\ \A j \in 1..(i - 1) : wins[j].val.socketId # s
    ELSE 0

\* ForwardScreenshot without the watchingClientId test: every web client is sent
\* the screenshot
ForwardScreenshotToAll(webs, clientId, screenshot) ==
  [i \in 1..Len(webs) |-> Emit(webs[i].val.socketId, "screen_update", screenshot)]

\* the web clients watching clientId, each sent the screenshot
ForwardScreenshot(webs, clientId, screenshot) ==
  LET watching == SelectSeq(webs, LAMBDA e : e.val.watchingClientId = clientId)
  IN [i \in 1..Len(watching) |-> Emit(watching[i].val.socketId, "screen_update", screenshot)]

\* ------------------------------------------------------------------------
\* Socket handlers
\* ------------------------------------------------------------------------

\* client_type whose web branch broadcasts the list to every web client
ClientTypeWebBroadcast(s, data) ==
  /\ conn[s] = "open"
  /\ last' = Event("client_type", s, data)
  /\ replaced' = <<>>
  /\ res' = NoRes
  /\ IF data.type = "windows"
       THEN /\ windowsClients' =
                 MapSet(windowsClients, JsOr(data.clientId, Str(s)),
                        [socketId |-> s,
                         clientId |-> JsOr(data.clientId, Str(s)),
                         lastScreenshot |-> Null,
                         hostname |-> JsOr(data.hostname, Str("Unknown PC"))])
            /\ out' = BroadcastPCList(windowsClients', webClients)
            /\ UNCHANGED webClients
       ELSE IF data.type = "web"
         THEN /\ webClients' = MapSet(webClients, s, [socketId |-> s, watchingClientId |-> Null])
              /\ out' = BroadcastPCList(windowsClients, webClients')
              /\ UNCHANGED windowsClients
         ELSE /\ out' = <<>>
              /\ UNCHANGED <<windowsClients, webClients>>
  /\ UNCHANGED conn

\* socket.on('client_type')
ClientType(s, data) ==
  /\ conn[s] = "open"
  /\ last' = Event("client_type", s, data)
  /\ replaced' = IF data.type = "windows" /\ MapHas(windowsClients, JsOr(data.clientId, Str(s)))
                   THEN <<MapGet(windowsClients, JsOr(data.clientId, Str(s)))>>
                   ELSE <<>>
  /\ res' = NoRes
  /\ IF data.type = "windows"
       THEN LET clientId == JsOr(data.clientId, Str(s))
                hostname == JsOr(data.hostname, Str("Unknown PC"))
                windowsClient == [socketId |-> s,
                                  clientId |-> clientId,
                                  lastScreenshot |-> Null,
                                  hostname |-> hostname]
            IN /\ windowsClients' = MapSet(windowsClients, clientId, windowsClient)
               /\ out' = BroadcastPCList(windowsClients', webClients)
               /\ UNCHANGED webClients
       ELSE IF data.type = "web"
         THEN /\ webClients' = MapSet(webClients, s, [socketId |-> s, watchingClientId |-> Null])
              /\ out' = <<Emit(s, "pc_list_update", [pcs |-> PcList(windowsClients)])>>
              /\ UNCHANGED windowsClients
         ELSE /\ out' = <<>>
              /\ UNCHANGED <<windowsClients, webClients>>
  /\ UNCHANGED conn

\* watch_pc without the replay of the stored screenshot
WatchPcNoReplay(s, data) ==
  /\ conn[s] = "open"
  /\ last' = Event("watch_pc", s, data)
  /\ replaced' = <<>>
  /\ res' = NoRes
  /\ out' = <<>>
  /\ webClients' = IF MapHas(webClients, s)
                     THEN [webClients EXCEPT
                             ![MapIndex(webClients, s)].val.watchingClientId = data.clientId]
                     ELSE webClients
  /\ UNCHANGED <<conn, windowsClients>>

\* watch_pc that registers a sender without entry as a consumer
WatchPcAutoRegister(s, data) ==
  /\ conn[s] = "open"
  /\ last' = Event("watch_pc", s, data)
  /\ replaced' = <<>>
  /\ res' = NoRes
  /\ webClients' = MapSet(webClients, s, [socketId |-> s, watchingClientId |-> data.clientId])
  /\ out' = IF /\ MapHas(windowsClients, data.clientId)
               /\ Truthy(MapGet(windowsClients, data.clientId).lastScreenshot)
              THEN <<Emit(s, "screen_update",
                          MapGet(windowsClients, data.clientId).lastScreenshot)>>
              ELSE <<>>
  /\ UNCHANGED <<conn, windowsClients>>

\* socket.on('watch_pc')
WatchPc(s, data) ==
  /\ conn[s] = "open"
  /\ last' = Event("watch_pc", s, data)
  /\ replaced' = <<>>
  /\ res' = NoRes
  /\ IF ~MapHas(webClients, s)
       THEN /\ out' = <<>>
            /\ UNCHANGED webClients
       ELSE /\ webClients' = [webClients EXCEPT
                                ![MapIndex(webClients, s)].val.watchingClientId = data.clientId]
            /\ out' = IF /\ MapHas(windowsClients, data.clientId)
                         /\ Truthy(MapGet(windowsClients, data.clientId).lastScreenshot)
                        THEN <<Emit(s, "screen_update",
                                    MapGet(windowsClients, data.clientId).lastScreenshot)>>
                        ELSE <<>>
  /\ UNCHANGED <<conn, windowsClients>>

\* socket.on('unwatch_pc')
UnwatchPc(s) ==
  /\ conn[s] = "open"
  /\ last' = Event("unwatch_pc", s, NoData)
  /\ replaced' = <<>>
  /\ res' = NoRes
  /\ out' = <<>>
  /\ webClients' = IF MapHas(webClients, s)
                     THEN [webClients EXCEPT ![MapIndex(webClients, s)].val.watchingClientId = Null]
                     ELSE webClients
  /\ UNCHANGED <<conn, windowsClients>>

\* screen_update that keeps the stored screenshot when its timestamp is later than
\* that of the push
ScreenUpdateKeepNewest(s, data) ==
  /\ conn[s] = "open"
  /\ last' = Event("screen_update", s, data)
  /\ replaced' = IF FindBySocket(windowsClients, s) # 0
                   THEN <<windowsClients[FindBySocket(windowsClients, s)].val.lastScreenshot>>
                   ELSE <<>>
  /\ res' = NoRes
  /\ LET i == FindBySocket(windowsClients, s)
     IN IF i = 0
          THEN /\ out' = <<>>
               /\ UNCHANGED windowsClients
          ELSE LET screenshot == Screenshot(data.image, data.timestamp,
                                            windowsClients[i].val.clientId)
                   stored == windowsClients[i].val.lastScreenshot
               IN /\ windowsClients' =
                       IF Truthy(stored) /\ stored.timestamp > data.timestamp
                         THEN windowsClients
                         ELSE [windowsClients EXCEPT ![i].val.lastScreenshot = screenshot]
                  /\ out' = ForwardScreenshot(webClients, windowsClients[i].val.clientId,
                                              screenshot)
  /\ UNCHANGED <<conn, webClients>>

\* screen_update that, for a sender without entry, stores and forwards the push
\* under the first entry of the registry
ScreenUpdateFromAnyone(s, data) ==
  /\ conn[s] = "open"
  /\ last' = Event("screen_update", s, data)
  /\ replaced' = <<>>
  /\ res' = NoRes
  /\ LET found == FindBySocket(windowsClients, s)
         i == IF found = 0 /\ windowsClients # <<>> THEN 1 ELSE found
     IN IF i = 0
          THEN /\ out' = <<>>
               /\ UNCHANGED windowsClients
          ELSE LET screenshot == Screenshot(data.image, data.timestamp,
                                            windowsClients[i].val.clientId)
               IN /\ windowsClients' = [windowsClients EXCEPT ![i].val.lastScreenshot = screenshot]
                  /\ out' = ForwardScreenshot(webClients, windowsClients[i].val.clientId,
                                              screenshot)
  /\ UNCHANGED <<conn, webClients>>

\* socket.on('screen_update')
ScreenUpdate(s, data) ==
  /\ conn[s] = "open"
  /\ last' = Event("screen_update", s, data)
  /\ replaced' = IF FindBySocket(windowsClients, s) # 0
                   THEN <<windowsClients[FindBySocket(windowsClients, s)].val.lastScreenshot>>
                   ELSE <<>>
  /\ res' = NoRes
  /\ LET i == FindBySocket(windowsClients, s)
     IN IF i = 0
          THEN /\ out' = <<>>
               /\ UNCHANGED windowsClients
          ELSE LET screenshot == Screenshot(data.image, data.timestamp,
                                            windowsClients[i].val.clientId)
               IN /\ windowsClients' = [windowsClients EXCEPT ![i].val.lastScreenshot = screenshot]
                  /\ out' = ForwardScreenshot(webClients, windowsClients[i].val.clientId,
                                              screenshot)
  /\ UNCHANGED <<conn, webClients>>

\* socket.on('request_screenshot')
RequestScreenshot(s, data) ==
  /\ conn[s] = "open"
  /\ last' = Event("request_screenshot", s, data)
  /\ replaced' = <<>>
  /\ res' = NoRes
  /\ out' = IF Truthy(data.clientId)
              THEN IF MapHas(windowsClients, data.clientId)
                     THEN EmitToOne(windowsClients, data.clientId, "request_screenshot", NoData)
                     ELSE <<>>
              ELSE EmitToAll(windowsClients, "request_screenshot", NoData)
  /\ UNCHANGED <<conn, windowsClients, webClients>>

\* remote_command falling back to the broadcast when the named client is unknown
RemoteCommandFallback(s, data) ==
  /\ conn[s] = "open"
  /\ last' = Event("remote_command", s, data)
  /\ replaced' = <<>>
  /\ res' = NoRes
  /\ out' = IF Truthy(data.clientId) /\ MapHas(windowsClients, data.clientId)
              THEN EmitToOne(windowsClients, data.clientId, "execute_command",
                             [command |-> data.command])
              ELSE EmitToAll(windowsClients, "execute_command", data)
  /\ UNCHANGED <<conn, windowsClients, webClients>>

\* socket.on('remote_command')
RemoteCommand(s, data) ==
  /\ conn[s] = "open"
  /\ last' = Event("remote_command", s, data)
  /\ replaced' = <<>>
  /\ res' = NoRes
  /\ out' = IF Truthy(data.clientId)
              THEN IF MapHas(windowsClients, data.clientId)
                     THEN EmitToOne(windowsClients, data.clientId, "execute_command",
                                    [command |-> data.command])
                     ELSE <<>>
              ELSE EmitToAll(windowsClients, "execute_command", data)
  /\ UNCHANGED <<conn, windowsClients, webClients>>

\* disconnect with the list broadcast before the entry is deleted
DisconnectBroadcastFirst(s) ==
  /\ conn[s] = "open"
  /\ conn' = [conn EXCEPT ![s] = "closed"]
  /\ last' = Event("disconnect", s, NoData)
  /\ replaced' = <<>>
  /\ res' = NoRes
  /\ LET i == FindBySocket(windowsClients, s)
     IN IF i = 0
          THEN /\ out' = <<>>
               /\ UNCHANGED windowsClients
          ELSE /\ out' = BroadcastPCList(windowsClients, webClients)
               /\ windowsClients' = MapDelete(windowsClients, windowsClients[i].key)
  /\ webClients' = IF MapHas(webClients, s) THEN MapDelete(webClients, s) ELSE webClients

\* disconnect that broadcasts the list whether or not it removed a producer
DisconnectAlwaysBroadcast(s) ==
  /\ conn[s] = "open"
  /\ conn' = [conn EXCEPT ![s] = "closed"]
  /\ last' = Event("disconnect", s, NoData)
  /\ replaced' = <<>>
  /\ res' = NoRes
  /\ LET i == FindBySocket(windowsClients, s)
     IN /\ windowsClients' = IF i = 0 THEN windowsClients
                                      ELSE MapDelete(windowsClients, windowsClients[i].key)
        /\ out' = BroadcastPCList(windowsClients', webClients)
  /\ webClients' = IF MapHas(webClients, s) THEN MapDelete(webClients, s) ELSE webClients

\* socket.on('disconnect')
Disconnect(s) ==
  /\ conn[s] = "open"
  /\ conn' = [conn EXCEPT ![s] = "closed"]
  /\ last' = Event("disconnect", s, NoData)
  /\ replaced' = <<>>
  /\ res' = NoRes
  /\ LET i == FindBySocket(windowsClients, s)
     IN IF i = 0
          THEN /\ out' = <<>>
               /\ UNCHANGED windowsClients
          ELSE /\ windowsClients' = MapDelete(windowsClients, windowsClients[i].key)
               /\ out' = BroadcastPCList(windowsClients', webClients)
  /\ webClients' = IF MapHas(webClients, s) THEN MapDelete(webClients, s) ELSE webClients

\* ------------------------------------------------------------------------
\* Handlers run for a connection whose disconnect handler has already run
\* ------------------------------------------------------------------------

\* socket.on('disconnect'), run once more for the same connection
DisconnectAgain(s) ==
  /\ conn[s] = "closed"
  /\ last' = Event("disconnect", s, NoData)
  /\ replaced' = <<>>
  /\ res' = NoRes
  /\ LET i == FindBySocket(windowsClients, s)
     IN IF i = 0
          THEN /\ out' = <<>>
               /\ UNCHANGED windowsClients
          ELSE /\ windowsClients' = MapDelete(windowsClients, windowsClients[i].key)
               /\ out' = BroadcastPCList(windowsClients', webClients)
  /\ webClients' = IF MapHas(webClients, s) THEN MapDelete(webClients, s) ELSE webClients
  /\ UNCHANGED conn

\* socket.on('screen_update'), for a push that arrives after the disconnect
LateScreenUpdate(s, data) ==
  /\ conn[s] = "closed"
  /\ last' = Event("screen_update", s, data)
  /\ replaced' = IF FindBySocket(windowsClients, s) # 0
                   THEN <<windowsClients[FindBySocket(windowsClients, s)].val.lastScreenshot>>
                   ELSE <<>>
  /\ res' = NoRes
  /\ LET i == FindBySocket(windowsClients, s)
     IN IF i = 0
          THEN /\ out' = <<>>
               /\ UNCHANGED windowsClients
          ELSE LET screenshot == Screenshot(data.image, data.timestamp,
                                            windowsClients[i].val.clientId)
               IN /\ windowsClients' = [windowsClients EXCEPT ![i].val.lastScreenshot = screenshot]
                  /\ out' = ForwardScreenshot(webClients, windowsClients[i].val.clientId,
                                              screenshot)
  /\ UNCHANGED <<conn, webClients>>


\* ------------------------------------------------------------------------
\* HTTP endpoints
\* ------------------------------------------------------------------------

Response(status, body) == [status |-> status, body |-> body]

\* !text
TextFalsy(text) == ~Truthy(text)

\* !text && text !== 0
TextMissing(text) == ~Truthy(text) /\ ~(text.t = "number" /\ text.s = "0")

\* app.post('/update')
PostUpdate(body) ==
  /\ last' = Event("POST /update", "", body)
  /\ replaced' = <<>>
  /\ IF TextMissing(body.text)
       THEN /\ res' = Response(400, [error |-> "Text required"])
            /\ out' = <<>>
       ELSE IF Truthy(body.clientId)
         THEN IF MapHas(windowsClients, body.clientId)
                THEN /\ out' = EmitToOne(windowsClients, body.clientId, "update_overlay",
                                         [text |-> String(body.text)])
                     /\ res' = Response(200, [success |-> TRUE, text |-> body.text,
                                              clientsNotified |-> 1])
                ELSE /\ out' = <<>>
                     /\ res' = Response(404, [error |-> "Client not found"])
         ELSE /\ out' = EmitToAll(windowsClients, "update_overlay",
                                  [text |-> String(body.text)])
              /\ res' = Response(200, [success |-> TRUE, text |-> body.text,
                                       clientsNotified |-> Len(windowsClients)])
  /\ UNCHANGED <<conn, windowsClients, webClients>>

\* app.post('/toggle-overlay')
PostToggleOverlay(body) ==
  /\ last' = Event("POST /toggle-overlay", "", body)
  /\ replaced' = <<>>
  /\ IF Truthy(body.clientId)
       THEN IF MapHas(windowsClients, body.clientId)
              THEN /\ out' = EmitToOne(windowsClients, body.clientId, "toggle_overlay",
                                       [visible |-> body.visible])
                   /\ res' = Response(200, [success |-> TRUE, visible |-> body.visible])
              ELSE /\ out' = <<>>
                   /\ res' = Response(404, [error |-> "Client not found"])
       ELSE /\ out' = EmitToAll(windowsClients, "toggle_overlay", [visible |-> body.visible])
            /\ res' = Response(200, [success |-> TRUE, visible |-> body.visible])
  /\ UNCHANGED <<conn, windowsClients, webClients>>

\* app.get('/latest-screenshot')
GetLatestScreenshot(query) ==
  /\ last' = Event("GET /latest-screenshot", "", query)
  /\ replaced' = <<>>
  /\ out' = <<>>
  /\ res' = IF Truthy(query.clientId)
              THEN IF \/ ~MapHas(windowsClients, query.clientId)
                      \/ ~Truthy(MapGet(windowsClients, query.clientId).lastScreenshot)
                     THEN Response(404, [error |-> "No screenshot available"])
                     ELSE Response(200, MapGet(windowsClients, query.clientId).lastScreenshot)
              ELSE Response(400, [error |-> "clientId required"])
  /\ UNCHANGED <<conn, windowsClients, webClients>>

\* app.get('/connected-pcs')
GetConnectedPcs ==
  /\ last' = Event("GET /connected-pcs", "", NoData)
  /\ replaced' = <<>>
  /\ out' = <<>>
  /\ res' = Response(200, [pcs |-> ConnectedPcList(windowsClients),
                           count |-> Len(ConnectedPcList(windowsClients))])
  /\ UNCHANGED <<conn, windowsClients, webClients>>

\* ------------------------------------------------------------------------
\* Specification
\* ------------------------------------------------------------------------

\* the handlers that write the registries
Lifecycle ==
  \/ \E s \in Sockets, data \in ClientTypeData : ClientType(s, data) /\ UNCHANGED log
  \/ \E s \in Sockets, data \in PushData : ScreenUpdate(s, data) /\ UNCHANGED log
  \/ \E s \in Sockets : Disconnect(s) /\ UNCHANGED log

\* the handlers that write a consumer's watch target
Watching ==
  \/ \E s \in Sockets, clientId \in WatchIds : WatchPc(s, [clientId |-> clientId]) /\ UNCHANGED log
  \/ \E s \in Sockets : UnwatchPc(s) /\ UNCHANGED log

\* the control operations: they read windowsClients and write nothing
Control ==
  \/ \E s \in Sockets, clientId \in RequestIds : RequestScreenshot(s, [clientId |-> clientId]) /\ UNCHANGED log
  \/ \E s \in Sockets, clientId \in RequestIds, command \in Commands :
       RemoteCommand(s, [clientId |-> clientId, command |-> command]) /\ UNCHANGED log
  \/ \E text \in Texts, clientId \in RequestIds :
       PostUpdate([text |-> text, clientId |-> clientId]) /\ UNCHANGED log
  \/ \E visible \in Visibles, clientId \in RequestIds :
       PostToggleOverlay([visible |-> visible, clientId |-> clientId]) /\ UNCHANGED log

\* the read-only endpoints
Queries ==
  \/ \E clientId \in RequestIds : GetLatestScreenshot([clientId |-> clientId]) /\ UNCHANGED log
  \/ GetConnectedPcs /\ UNCHANGED log

Next == Lifecycle \/ Watching \/ Control \/ Queries

\* every handler of the server
Spec == Init /\ [][Next]_vars

NextRelay == Lifecycle \/ Watching

\* registration, subscription, relay of pushes and disconnects
SpecRelay == Init /\ [][NextRelay]_vars

NextControl == Lifecycle \/ Control

\* registration, pushes, disconnects and the control operations, which read no
\* watch target
SpecControl == Init /\ [][NextControl]_vars

NextQueries == Lifecycle \/ Queries

\* registration, pushes, disconnects and the read-only endpoints, which read no
\* watch target
SpecQueries == Init /\ [][NextQueries]_vars

\* the handlers run again for a closed connection
Late ==
  \/ \E s \in Sockets : DisconnectAgain(s) /\ UNCHANGED log
  \/ \E s \in Sockets, data \in PushData : LateScreenUpdate(s, data) /\ UNCHANGED log

NextLate == Lifecycle \/ Watching \/ Late

\* the relay, with duplicate disconnects and pushes that arrive after the disconnect
SpecLate == Init /\ [][NextLate]_vars

\* ------------------------------------------------------------------------
\* Vocabulary of the properties
\* ------------------------------------------------------------------------

\* the connections the last handler emitted to
Recipients == {out[i].to : i \in 1..Len(out)}

\* the number of emits the last handler made to connection s
EmitsTo(s) == Cardinality({i \in 1..Len(out) : out[i].to = s})

\* the connections stored in the Producer Registry
ProducerConnections == {windowsClients[i].val.socketId : i \in 1..Len(windowsClients)}

\* the connections that have a Consumer Registry entry
Consumers == {webClients[i].key : i \in 1..Len(webClients)}

\* the consumers whose watch target is id
Watchers(id) ==
  {webClients[i].key : i \in {j \in 1..Len(webClients) : webClients[j].val.watchingClientId = id}}

\* the Producer Registry entries whose connection is s
EntriesOf(wins, s) == {i \in 1..Len(wins) : wins[i].val.socketId = s}

\* the entry a push or a disconnect of connection s is attributed to: the first
\* entry, in insertion order, whose connection is s
AttributedTo(wins, s) == CHOOSE i \in EntriesOf(wins, s) : \A j \in EntriesOf(wins, s) : i <= j

\* ------------------------------------------------------------------------
\* C1
\* ------------------------------------------------------------------------

\* the last handler was screen_update, from a connection that has a producer entry
PushFromProducer == last.op = "screen_update" /\ EntriesOf(windowsClients, last.socket) # {}

\* the producer id the push was stored under
PushedId == windowsClients[AttributedTo(windowsClients, last.socket)].val.clientId

\* C1 (as amended): a screen_update from a registered producer P is emitted, once
\* each, to exactly the registered consumers whose watch target is P's producer
\* id: not to a consumer watching another id, not to a consumer with a null watch
\* target, not to a connection without a consumer entry, and to every watcher.
C1_PushReachesExactlyTheWatchers ==
  PushFromProducer =>
    /\ \A i \in 1..Len(out) :
         /\ out[i].event = "screen_update"
         /\ out[i].payload = Screenshot(last.data.image, last.data.timestamp, PushedId)
    /\ Recipients = Watchers(PushedId)
    /\ \A s \in Recipients : EmitsTo(s) = 1

\* a push reached a watcher while another consumer, not watching P, got nothing
C1_Witness ==
  /\ PushFromProducer
  /\ Watchers(PushedId) # {}
  /\ Consumers \ Watchers(PushedId) # {}
  /\ out # <<>>

\* C1 (as claimed): the same, and no producer connection receives the screen_update.
C1_NoProducerConnectionReceives ==
  PushFromProducer =>
    /\ Recipients = Watchers(PushedId)
    /\ Recipients \cap ProducerConnections = {}

\* ------------------------------------------------------------------------
\* C2
\* ------------------------------------------------------------------------

ControlOps == {"POST /update", "POST /toggle-overlay", "request_screenshot", "remote_command"}

\* the event a control operation delivers
ControlEvent(op) ==
  CASE op = "POST /update" -> "update_overlay"
    [] op = "POST /toggle-overlay" -> "toggle_overlay"
    [] op = "request_screenshot" -> "request_screenshot"
    [] op = "remote_command" -> "execute_command"

\* the last handler was a control operation that passed validation
Routed == last.op \in ControlOps /\ res.status # 400

\* the connections of the registered producers, entry by entry
ProducerConnectionSeq == [i \in 1..Len(windowsClients) |-> windowsClients[i].val.socketId]

\* the connections the last handler emitted to, emit by emit
RecipientSeq == [i \in 1..Len(out) |-> out[i].to]

\* C2: a control operation that names a registered producer id emits its event
\* once, to the connection stored under that id, and to nothing else; one that
\* carries no producer id emits it once per registered producer, to that
\* producer's connection; the result is never anything but nothing, the one
\* named producer, or all of them.
C2_AllOrOne ==
  Routed =>
    /\ \A i \in 1..Len(out) : out[i].event = ControlEvent(last.op)
    /\ MapHas(windowsClients, last.data.clientId) =>
         RecipientSeq = <<MapGet(windowsClients, last.data.clientId).socketId>>
    /\ last.data.clientId = Undefined => RecipientSeq = ProducerConnectionSeq
    /\ \/ out = <<>>
       \/ /\ MapHas(windowsClients, last.data.clientId)
          /\ RecipientSeq = <<MapGet(windowsClients, last.data.clientId).socketId>>
       \/ RecipientSeq = ProducerConnectionSeq

\* a request without producer id reached two producers on two connections
C2_Witness ==
  /\ Routed
  /\ last.data.clientId = Undefined
  /\ Cardinality(ProducerConnections) >= 2
  /\ Recipients = ProducerConnections

\* ------------------------------------------------------------------------
\* C3
\* ------------------------------------------------------------------------

\* the next state is that of a control operation whose clientId is not, in this
\* state, a key of the Producer Registry
UnknownTargetStep(named) ==
  /\ last'.op \in ControlOps
  /\ named
  /\ ~MapHas(windowsClients, last'.data.clientId)

\* C3 (as amended): a control operation that names a non-empty producer id not
\* currently registered delivers the event to no connection and leaves both
\* registries unchanged; request_screenshot and remote_command give the caller no
\* error, POST /toggle-overlay answers 404, and POST /update answers 404, or 400
\* when it also rejects the text.
C3_UnknownProducerDropped ==
  [][UnknownTargetStep(Truthy(last'.data.clientId)) =>
       /\ out' = <<>>
       /\ UNCHANGED <<windowsClients, webClients>>
       /\ res'.status =
            CASE last'.op = "POST /update" ->
                   IF last'.data.text \in {Undefined, Str("")} THEN 400 ELSE 404
              [] last'.op = "POST /toggle-overlay" -> 404
              [] OTHER -> 0]_vars

\* remote_command for an unregistered id, with another producer registered, emitted nothing
C3_Witness ==
  /\ last.op = "remote_command"
  /\ Truthy(last.data.clientId)
  /\ ~MapHas(windowsClients, last.data.clientId)
  /\ windowsClients # <<>>
  /\ out = <<>>
  /\ res = NoRes

\* C3 (as claimed): a control operation that names a producer id not currently
\* registered, and is not rejected for its text, delivers nothing, changes no
\* registry, and gives the caller no error.
C3_UnknownProducerNoError ==
  [][UnknownTargetStep(last'.data.clientId # Undefined /\ res'.status # 400) =>
       /\ out' = <<>>
       /\ UNCHANGED <<windowsClients, webClients>>
       /\ res'.status \in {0, 200}]_vars

\* ------------------------------------------------------------------------
\* C4
\* ------------------------------------------------------------------------

\* C4: watch_pc from a registered consumer, naming a registered producer that
\* holds a snapshot, emits exactly one screen_update, to that consumer, carrying
\* the producer's current snapshot, within the handler itself and so before any
\* later push is handled; naming an absent producer, or one without snapshot, it
\* emits nothing.
C4_ReplayOnSubscribe ==
  (last.op = "watch_pc" /\ last.socket \in Consumers) =>
    IF \E i \in 1..Len(windowsClients) :
         /\ windowsClients[i].key = last.data.clientId
         /\ Truthy(windowsClients[i].val.lastScreenshot)
      THEN /\ Len(out) = 1
           /\ out[1].to = last.socket
           /\ out[1].event = "screen_update"
           /\ \E i \in 1..Len(windowsClients) :
                /\ windowsClients[i].key = last.data.clientId
                /\ out[1].payload = windowsClients[i].val.lastScreenshot
           /\ out[1].payload.clientId = last.data.clientId
      ELSE out = <<>>

\* a consumer subscribed and was sent the stored snapshot; another consumer got nothing
C4_Witness ==
  /\ last.op = "watch_pc"
  /\ Cardinality(Consumers) >= 2
  /\ Len(out) = 1
  /\ out[1].to = last.socket
  /\ out[1].event = "screen_update"

\* ------------------------------------------------------------------------
\* C5
\* ------------------------------------------------------------------------

\* the producer ids of a pc_list_update payload, in order
ListedIds(pcs) == [i \in 1..Len(pcs) |-> pcs[i].clientId]

Range(f) == {f[i] : i \in DOMAIN f}

NoDuplicates(f) == \A i, j \in DOMAIN f : f[i] = f[j] => i = j

\* f without its i-th element
RemoveAt(f, i) == [j \in 1..(Len(f) - 1) |-> IF j < i THEN f[j] ELSE f[j + 1]]

\* the id a client_type {type: 'windows'} event registers under: the clientId it
\* gives, or the id of its connection when it gives none
RegisteredId(ev) == JsOr(ev.data.clientId, Str(ev.socket))

IsRegistration(ev) == ev.op = "client_type" /\ ev.data.type = "windows"

\* C6: across registrations, re-registrations and disconnects, the producer list
\* (the body of GET /connected-pcs and the payload of every pc_list_update) names
\* exactly the ids of the Producer Registry, each once, in the order of their
\* insertion: a new id is appended, a re-registered id keeps its place, and a
\* removal leaves the order of the others as it was.
C6_ProducerListInInsertionOrder ==
  [][/\ NoDuplicates(MapKeys(windowsClients'))
     /\ \A i \in 1..Len(windowsClients') :
          windowsClients'[i].key = windowsClients'[i].val.clientId
     /\ last'.op = "GET /connected-pcs" =>
          /\ ListedIds(res'.body.pcs) = MapKeys(windowsClients')
          /\ res'.body.count = Len(windowsClients')
     /\ \A i \in 1..Len(out') :
          out'[i].event = "pc_list_update" =>
            ListedIds(out'[i].payload.pcs) = MapKeys(windowsClients')
     /\ MapKeys(windowsClients') =
          IF IsRegistration(last')
            THEN IF RegisteredId(last') \in Range(MapKeys(windowsClients))
                   THEN MapKeys(windowsClients)
                   ELSE Append(MapKeys(windowsClients), RegisteredId(last'))
            ELSE IF last'.op = "disconnect" /\ EntriesOf(windowsClients, last'.socket) # {}
                   THEN RemoveAt(MapKeys(windowsClients),
                                 AttributedTo(windowsClients, last'.socket))
                   ELSE MapKeys(windowsClients)]_vars

\* the first of two registered ids was registered again, kept the first place,
\* and a consumer was sent the list
C6_Witness ==
  /\ IsRegistration(last)
  /\ replaced # <<>>
  /\ Len(windowsClients) >= 2
  /\ windowsClients[1].key = RegisteredId(last)
  /\ out # <<>>
  /\ ListedIds(out[1].payload.pcs) = MapKeys(windowsClients)

\* ------------------------------------------------------------------------
\* C7
\* ------------------------------------------------------------------------

\* C7: a push from a registered producer replaces the entry's snapshot by the push
\* (its image and timestamp, whatever the timestamp of the snapshot it replaces),
\* and the snapshot of an entry changes in no other way than by a push attributed
\* to it or by a registration under its id, which clears it.
C7_PushOverwrites ==
  [][/\ (last'.op = "screen_update" /\ EntriesOf(windowsClients, last'.socket) # {}) =>
          LET i == AttributedTo(windowsClients, last'.socket)
          IN /\ Len(windowsClients') = Len(windowsClients)
             /\ windowsClients'[i].val.lastScreenshot =
                  Screenshot(last'.data.image, last'.data.timestamp, windowsClients[i].key)
     /\ \A i \in 1..Len(windowsClients), j \in 1..Len(windowsClients') :
          (/\ windowsClients[i].key = windowsClients'[j].key
           /\ windowsClients[i].val.lastScreenshot # windowsClients'[j].val.lastScreenshot) =>
            \/ /\ last'.op = "screen_update"
               /\ EntriesOf(windowsClients, last'.socket) # {}
               /\ i = AttributedTo(windowsClients, last'.socket)
            \/ /\ IsRegistration(last')
               /\ RegisteredId(last') = windowsClients[i].key
               /\ windowsClients'[j].val.lastScreenshot = Null]_vars

\* a push with an earlier timestamp replaced a snapshot with a later one
C7_Witness ==
  /\ PushFromProducer
  /\ replaced # <<>>
  /\ Truthy(replaced[1])
  /\ replaced[1].timestamp > last.data.timestamp
  /\ windowsClients[AttributedTo(windowsClients, last.socket)].val.lastScreenshot.image
       = last.data.image

\* ------------------------------------------------------------------------
\* C8
\* ------------------------------------------------------------------------

\* C8 (as amended): POST /update is rejected with 400 if and only if the text is
\* absent or the empty string; numeric zero is accepted and routed to the
\* producers as the text "0" like any other text, and a rejected request delivers
\* update_overlay to no producer.
C8_TextValidation ==
  last.op = "POST /update" =>
    /\ res.status = 400 <=> last.data.text \in {Undefined, Str("")}
    /\ res.status = 400 => out = <<>>
    /\ \A i \in 1..Len(out) :
         /\ out[i].event = "update_overlay"
         /\ out[i].payload = [text |-> Str(last.data.text.s)]
    /\ (res.status # 400 /\ last.data.clientId = Undefined) =>
         RecipientSeq = ProducerConnectionSeq
    /\ (res.status # 400 /\ MapHas(windowsClients, last.data.clientId)) =>
         RecipientSeq = <<MapGet(windowsClients, last.data.clientId).socketId>>

\* numeric zero was accepted and delivered to a producer as "0"
C8_Witness ==
  /\ last.op = "POST /update"
  /\ last.data.text = Num0
  /\ res.status = 200
  /\ out # <<>>
  /\ out[1].payload = [text |-> Str("0")]

\* C8 (as claimed): POST /update is rejected if and only if the text is absent, and
\* a rejected request delivers nothing.
C8_RejectedIffAbsent ==
  last.op = "POST /update" =>
    /\ res.status = 400 <=> last.data.text = Undefined
    /\ res.status = 400 => out = <<>>

\* ------------------------------------------------------------------------
\* C9
\* ------------------------------------------------------------------------

\* C9: a registration under an id already present leaves exactly one entry for
\* the id, whose connection is the registering connection and whose snapshot is
\* absent; and a targeted control event for a registered id goes to the
\* connection the entry holds now, and to no other.
C9_ReRegistrationReplaces ==
  /\ (IsRegistration(last) /\ replaced # <<>>) =>
       /\ Cardinality({i \in 1..Len(windowsClients) :
                         windowsClients[i].key = RegisteredId(last)}) = 1
       /\ \A i \in 1..Len(windowsClients) :
            windowsClients[i].key = RegisteredId(last) =>
              /\ windowsClients[i].val.socketId = last.socket
              /\ windowsClients[i].val.clientId = RegisteredId(last)
              /\ windowsClients[i].val.lastScreenshot = Null
  /\ (Routed /\ \E i \in 1..Len(windowsClients) : windowsClients[i].key = last.data.clientId) =>
       \E i \in 1..Len(windowsClients) :
         /\ windowsClients[i].key = last.data.clientId
         /\ RecipientSeq = <<windowsClients[i].val.socketId>>

\* an id held by another, still open connection, with a snapshot, was registered again
C9_Witness ==
  /\ IsRegistration(last)
  /\ replaced # <<>>
  /\ replaced[1].socketId # last.socket
  /\ conn[replaced[1].socketId] = "open"
  /\ Truthy(replaced[1].lastScreenshot)

\* ------------------------------------------------------------------------
\* C10
\* ------------------------------------------------------------------------

\* C10: at most one Producer Registry entry has a given connection id, and no
\* entry refers to a connection whose disconnect handler has run.
C10_OneEntryPerConnection ==
  /\ \A s \in Sockets : Cardinality(EntriesOf(windowsClients, s)) <= 1
  /\ \A s \in Sockets : conn[s] = "closed" => EntriesOf(windowsClients, s) = {}

\* ------------------------------------------------------------------------
\* C11
\* ------------------------------------------------------------------------

\* the next state is that of a disconnect handler run for the connection whose
\* disconnect handler was the last to run
DuplicateDisconnectStep ==
  /\ last.op = "disconnect"
  /\ last'.op = "disconnect"
  /\ last'.socket = last.socket

\* C11: the disconnect handler run a second time for the same connection, with no
\* other event in between, leaves the Producer Registry and the Consumer Registry
\* unchanged and delivers no event to any connection.
C11_DuplicateDisconnectHarmless ==
  [][DuplicateDisconnectStep =>
       /\ UNCHANGED <<windowsClients, webClients>>
       /\ out' = <<>>]_vars

\* ------------------------------------------------------------------------
\* Three connections: s1 declares only the producer role, s3 only the consumer
\* role, s2 either or both; an observer records the subscriptions left without
\* producer and the producer list each consumer was sent last
\* ------------------------------------------------------------------------

FleetSockets == Sockets \cup {"s3"}

FleetProducers == {"s1", "s2"}

FleetConsumers == {"s2", "s3"}

WindowsData == {data \in ClientTypeData : data.type = "windows"}

WebData == {data \in ClientTypeData : data.type = "web"}

\* the three connections push one and the same screenshot
FleetPushData == {[image |-> Images[1], timestamp |-> Timestamps[1]]}

InitFleet ==
  /\ conn = [s \in FleetSockets |-> "open"]
  /\ windowsClients = <<>>
  /\ webClients = <<>>
  /\ last = Event("init", "", NoData)
  /\ replaced = <<>>
  /\ out = <<>>
  /\ res = NoRes
  /\ log = NoLog

\* the watch target of consumer c
Target(webs, c) == MapGet(webs, c).watchingClientId

\* the consumers watching an id that the step removes from the Producer Registry
Orphaned ==
  {c \in Consumers :
     /\ MapHas(windowsClients, Target(webClients, c))
     /\ ~MapHas(windowsClients', Target(webClients, c))}

\* the consumer that, in the step, declares its role or sets or clears its watch target
Resubscribed ==
  IF \/ last'.op \in {"watch_pc", "unwatch_pc"}
     \/ last'.op = "client_type" /\ last'.data.type = "web"
    THEN {last'.socket}
    ELSE {}

\* the pc_list_update events among emits that go to connection c
ListsSentTo(emits, c) == SelectSeq(emits, LAMBDA e : e.to = c /\ e.event = "pc_list_update")

\* the value of log.lists for a consumer that was never sent a producer list
NeverListed == <<Null>>

\* the connection and the id of the entry that the step, a registration by
\* another connection, replaces while that connection is open
Superseded ==
  IF /\ last'.op = "client_type"
     /\ replaced' # <<>>
     /\ replaced'[1].socketId # last'.socket
     /\ conn[replaced'[1].socketId] = "open"
    THEN {[old |-> replaced'[1].socketId, id |-> replaced'[1].clientId]}
    ELSE {}

\* the entry under id is held by a connection other than s
HeldByAnother(wins, id, s) == MapHas(wins, id) /\ MapGet(wins, id).socketId # s

\* the observer: a consumer is an orphan from the step that removes the producer
\* it watches until it declares the consumer role or sends watch_pc or unwatch_pc
\* again, or leaves; left holds the Consumer Registry entry that the step removed;
\* superseded holds a connection with an id it registered for as long as another
\* connection, which registered the id while the first was open, holds the entry;
\* the list of a consumer is that of the last pc_list_update emitted to it
ObserveSubscriptions ==
  log' = [log EXCEPT
            !.superseded = {p \in log.superseded \cup Superseded :
                              HeldByAnother(windowsClients', p.id, p.old)},
            !.orphans = ((log.orphans \cup Orphaned) \ Resubscribed) \cap Consumers',
            !.left = [i \in 1..Cardinality(Consumers \ Consumers') |->
                        MapGet(webClients, CHOOSE c \in Consumers \ Consumers' : TRUE)],
            !.lists = [c \in Consumers' |->
                         LET sent == ListsSentTo(out', c)
                         IN IF sent # <<>>
                              THEN ListedIds(sent[Len(sent)].payload.pcs)
                              ELSE IF c \in DOMAIN log.lists THEN log.lists[c] ELSE NeverListed]]

NextFleet ==
  \/ \E s \in FleetProducers, data \in WindowsData : ClientType(s, data) /\ ObserveSubscriptions
  \/ \E s \in FleetConsumers, data \in WebData : ClientType(s, data) /\ ObserveSubscriptions
  \/ \E s \in FleetProducers, data \in FleetPushData : ScreenUpdate(s, data) /\ ObserveSubscriptions
  \/ \E s \in FleetConsumers, clientId \in WatchIds :
       WatchPc(s, [clientId |-> clientId]) /\ ObserveSubscriptions
  \/ \E s \in FleetConsumers : UnwatchPc(s) /\ ObserveSubscriptions
  \/ \E s \in FleetSockets : Disconnect(s) /\ ObserveSubscriptions

\* registration, subscription, relay and disconnects of the three connections
SpecFleet == InitFleet /\ [][NextFleet]_vars

\* ------------------------------------------------------------------------
\* C12
\* ------------------------------------------------------------------------

\* the next state is that of a push from a connection registered under id that
\* has stored no push since
FirstPushOf(id) ==
  /\ last'.op = "screen_update"
  /\ \E i \in 1..Len(windowsClients) :
       /\ windowsClients[i].key = id
       /\ windowsClients[i].val.socketId = last'.socket
       /\ windowsClients[i].val.lastScreenshot = Null

\* the screen_update events the step emits to connection c
ScreenUpdatesTo(emits, c) == SelectSeq(emits, LAMBDA e : e.to = c /\ e.event = "screen_update")

\* C12: the watch target of a consumer survives the disconnect of the producer it
\* watches; as long as no producer is registered under the id, the consumer is
\* sent no screen_update; and once a producer is registered under the id again,
\* its next push is sent to the consumer, which has not sent watch_pc again.
C12_WatchTargetSurvives ==
  [][/\ \A c \in Orphaned \cap Consumers' : Target(webClients', c) = Target(webClients, c)
     /\ \A c \in log.orphans \cap log'.orphans :
          /\ Target(webClients', c) = Target(webClients, c)
          /\ ~MapHas(windowsClients, Target(webClients, c)) => ScreenUpdatesTo(out', c) = <<>>
          /\ FirstPushOf(Target(webClients, c)) =>
               /\ Len(ScreenUpdatesTo(out', c)) = 1
               /\ ScreenUpdatesTo(out', c)[1].payload.image = last'.data.image]_vars

\* ------------------------------------------------------------------------
\* C13
\* ------------------------------------------------------------------------

\* C13: a screen_update from a connection that no Producer Registry entry holds
\* (it never registered as producer, its disconnect handler has run, or another
\* connection has taken its id) is dropped: both registries, and so every
\* stored snapshot, stay as they are, nothing is emitted to any connection, and
\* the sender is given no error.
C13_UnregisteredPushDropped ==
  [][(last'.op = "screen_update" /\ EntriesOf(windowsClients, last'.socket) = {}) =>
       /\ UNCHANGED <<windowsClients, webClients>>
       /\ out' = <<>>
       /\ res' = NoRes]_vars

\* a push from a connection without entry was dropped while a registered producer
\* held a snapshot and a consumer was watching that producer
C13_Witness ==
  /\ last.op = "screen_update"
  /\ EntriesOf(windowsClients, last.socket) = {}
  /\ \E i \in 1..Len(windowsClients) :
       /\ Truthy(windowsClients[i].val.lastScreenshot)
       /\ windowsClients[i].val.lastScreenshot.image # last.data.image
       /\ Watchers(windowsClients[i].key) # {}
  /\ out = <<>>

\* ------------------------------------------------------------------------
\* C14
\* ------------------------------------------------------------------------

\* webs with the watch target of consumer c set to id
WithTarget(webs, c, id) ==
  [i \in 1..Len(webs) |->
     IF webs[i].key = c THEN [webs[i] EXCEPT !.val.watchingClientId = id] ELSE webs[i]]

\* C14: watch_pc or unwatch_pc from a connection without Consumer Registry entry
\* changes neither registry and emits nothing, not even a stored snapshot; from a
\* connection with an entry, watch_pc sets the watch target to the id it gives,
\* registered or not, unwatch_pc clears it, and nothing else in either registry
\* changes.
C14_WatchNeedsConsumerEntry ==
  [][last'.op \in {"watch_pc", "unwatch_pc"} =>
       /\ UNCHANGED windowsClients
       /\ IF last'.socket \notin Consumers
            THEN /\ UNCHANGED webClients
                 /\ out' = <<>>
            ELSE webClients' =
                   WithTarget(webClients, last'.socket,
                              IF last'.op = "watch_pc" THEN last'.data.clientId ELSE Null)]_vars

\* watch_pc from a connection without consumer entry named a producer that holds a
\* snapshot, and nothing was emitted
C14_Witness ==
  /\ last.op = "watch_pc"
  /\ last.socket \notin Consumers
  /\ MapHas(windowsClients, last.data.clientId)
  /\ Truthy(MapGet(windowsClients, last.data.clientId).lastScreenshot)
  /\ out = <<>>

\* ------------------------------------------------------------------------
\* The relay with its pushes and deliveries recorded: the k-th screen_update the
\* server receives carries the k-th image, so that an image names one push
\* ------------------------------------------------------------------------

\* the screen_update the server receives after n others
NthPush(n) == [image |-> Images[n + 1], timestamp |-> Timestamps[n + 1]]

\* the images of the screen_update events recorded as emitted to connection c
DeliveredTo(c) == IF c \in DOMAIN log.deliveries THEN log.deliveries[c] ELSE <<>>

\* the images of a sequence of screen_update emits
ImagesOf(emits) == [i \in 1..Len(emits) |-> emits[i].payload.image]

\* the observer: every screen_update received, with its sender, and every
\* screen_update emitted, per recipient, in the order of the emits
ObserveOrder ==
  log' = [log EXCEPT
            !.pushes = IF last'.op = "screen_update"
                         THEN Append(log.pushes, [socket |-> last'.socket,
                                                  image |-> last'.data.image])
                         ELSE log.pushes,
            !.deliveries = [c \in Sockets |->
                              DeliveredTo(c) \o ImagesOf(ScreenUpdatesTo(out', c))]]

\* the one connection that declares the producer role
TheProducer == "s1"

\* the one connection that declares the consumer role
TheConsumer == "s2"

NextOrder ==
  \/ \E data \in WindowsData : ClientType(TheProducer, data) /\ ObserveOrder
  \/ \E data \in WebData : ClientType(TheConsumer, data) /\ ObserveOrder
  \/ /\ Len(log.pushes) < NumSnapshots
     /\ ScreenUpdate(TheProducer, NthPush(Len(log.pushes)))
     /\ ObserveOrder
  \/ \E clientId \in WatchIds :
       /\ Len(DeliveredTo(TheConsumer)) < NumSnapshots + MaxReplays
       /\ WatchPc(TheConsumer, [clientId |-> clientId])
       /\ ObserveOrder
  \/ UnwatchPc(TheConsumer) /\ ObserveOrder
  \/ \E s \in Sockets : Disconnect(s) /\ ObserveOrder

\* one producer and one consumer: registration, subscription, relay and
\* disconnects, with the pushes in a fixed order and every delivery recorded
SpecOrder == Init /\ [][NextOrder]_vars

\* ------------------------------------------------------------------------
\* C15
\* ------------------------------------------------------------------------

\* the place of the push that carried image among the pushes received
PushIndex(image) == CHOOSE k \in 1..Len(log.pushes) : log.pushes[k].image = image

\* C15: the screen_update events emitted to the consumer, replays by watch_pc
\* included, each carry a snapshot the producer has pushed, and they follow the
\* order in which the pushes were received: no snapshot is emitted after one
\* that was pushed later.
C15_DeliveredInPushOrder ==
  \A c \in DOMAIN log.deliveries :
    /\ \A i \in 1..Len(log.deliveries[c]) :
         \E k \in 1..Len(log.pushes) : log.pushes[k].image = log.deliveries[c][i]
    /\ \A i, j \in 1..Len(log.deliveries[c]) :
         i < j => PushIndex(log.deliveries[c][i]) <= PushIndex(log.deliveries[c][j])

\* the consumer was sent the first snapshot twice, so once at least as a replay,
\* and then the second snapshot as it was pushed
C15_Witness ==
  /\ last.op = "screen_update"
  /\ last.data.image = Images[2]
  /\ Len(DeliveredTo(TheConsumer)) >= 3
  /\ DeliveredTo(TheConsumer)[1] = Images[1]
  /\ DeliveredTo(TheConsumer)[2] = Images[1]
  /\ DeliveredTo(TheConsumer)[Len(DeliveredTo(TheConsumer))] = Images[2]

\* ------------------------------------------------------------------------
\* C16
\* ------------------------------------------------------------------------

\* the next state is that of a client_type event that declares the consumer role
ConsumerJoinStep == last'.op = "client_type" /\ last'.data.type = "web"

\* C16: when a connection declares the consumer role, it has a Consumer Registry
\* entry with no watch target afterwards, the entries of the other consumers and
\* the Producer Registry are as before, and the handler emits one event only: a
\* pc_list_update to that connection, which lists the registered producers in
\* registry order, each with whether it holds a snapshot.
C16_ConsumerJoinGetsListAlone ==
  [][ConsumerJoinStep =>
       /\ UNCHANGED windowsClients
       /\ Consumers' = Consumers \cup {last'.socket}
       /\ MapGet(webClients', last'.socket) = [socketId |-> last'.socket, watchingClientId |-> Null]
       /\ \A c \in Consumers \ {last'.socket} : MapGet(webClients', c) = MapGet(webClients, c)
       /\ Len(out') = 1
       /\ out'[1].to = last'.socket
       /\ out'[1].event = "pc_list_update"
       /\ ListedIds(out'[1].payload.pcs) = MapKeys(windowsClients)
       /\ \A i \in 1..Len(windowsClients) :
            out'[1].payload.pcs[i].hasScreenshot = (windowsClients[i].val.lastScreenshot # Null)]_vars

\* a connection declared the consumer role while another consumer was registered
\* and a producer on a third connection held a snapshot: it alone was sent the list
C16_Witness ==
  /\ last.op = "client_type"
  /\ last.data.type = "web"
  /\ Consumers \ {last.socket} # {}
  /\ \E i \in 1..Len(windowsClients) :
       /\ Truthy(windowsClients[i].val.lastScreenshot)
       /\ windowsClients[i].val.socketId \notin Consumers
  /\ Recipients = {last.socket}

\* ------------------------------------------------------------------------
\* C17
\* ------------------------------------------------------------------------

\* C17: the disconnect of a connection that has a Consumer Registry entry and no
\* Producer Registry entry removes that consumer entry and nothing else: the
\* Producer Registry, with its snapshots, and the entries of the other consumers,
\* with their watch targets, stay as they are, and the handler emits nothing.
C17_ConsumerDisconnectIsSilent ==
  [][(/\ last'.op = "disconnect"
      /\ last'.socket \in Consumers
      /\ EntriesOf(windowsClients, last'.socket) = {}) =>
       /\ UNCHANGED windowsClients
       /\ Consumers' = Consumers \ {last'.socket}
       /\ \A c \in Consumers' : MapGet(webClients', c) = MapGet(webClients, c)
       /\ out' = <<>>]_vars

\* a consumer left while another consumer was watching a producer that holds a
\* snapshot, on a third connection, and nothing was emitted
C17_Witness ==
  /\ last.op = "disconnect"
  /\ log.left # <<>>
  /\ log.left[1].socketId = last.socket
  /\ EntriesOf(windowsClients, last.socket) = {}
  /\ \E i \in 1..Len(windowsClients) :
       /\ Truthy(windowsClients[i].val.lastScreenshot)
       /\ windowsClients[i].val.socketId \notin Consumers
       /\ Watchers(windowsClients[i].key) # {}
       /\ log.left[1].watchingClientId = windowsClients[i].key
  /\ out = <<>>

\* ------------------------------------------------------------------------
\* C18
\* ------------------------------------------------------------------------

\* the next state is that of the disconnect of a connection that is open and has
\* lost an id to another connection, which holds the entry now
SupersededDisconnectStep ==
  /\ last'.op = "disconnect"
  /\ conn[last'.socket] = "open"
  /\ \E p \in log.superseded : p.old = last'.socket

\* C18: when another connection has registered a producer id again while the
\* connection that held it was still open, the later disconnect of that old
\* connection leaves the entry, owned by the new connection, in the Producer
\* Registry with its snapshot, and emits no pc_list_update.
C18_OldConnectionDisconnectIsSilent ==
  [][SupersededDisconnectStep =>
       /\ \A p \in log.superseded :
            p.old = last'.socket =>
              /\ MapHas(windowsClients', p.id)
              /\ MapGet(windowsClients', p.id) = MapGet(windowsClients, p.id)
       /\ \A i \in 1..Len(out') : out'[i].event # "pc_list_update"]_vars

\* ------------------------------------------------------------------------
\* C19
\* ------------------------------------------------------------------------

\* C19: at every moment, for every registered consumer, the producer ids of the
\* pc_list_update emitted to it last are the ids of the Producer Registry, in
\* registry order.
C19_ListsAreCurrent ==
  /\ DOMAIN log.lists = Consumers
  /\ \A c \in Consumers : log.lists[c] = MapKeys(windowsClients)

\* a producer left, and each of two consumers was sent the list of the producers
\* that remain, which are on open connections
C19_Witness ==
  /\ last.op = "disconnect"
  /\ Cardinality(Consumers) = 2
  /\ Recipients = Consumers
  /\ Len(windowsClients) >= 1
  /\ \A i \in 1..Len(windowsClients) : conn[windowsClients[i].val.socketId] = "open"
  /\ \A c \in Consumers : log.lists[c] = MapKeys(windowsClients)

\* ------------------------------------------------------------------------
\* C20
\* ------------------------------------------------------------------------

\* the fields an object has: a field that is undefined is absent
PresentFields(obj) == [f \in {g \in DOMAIN obj : obj[g] # Undefined} |-> obj[f]]

\* C20: every execute_command emitted for a remote_command carries the command
\* field of the request and no other field, whether the request named one
\* producer or, naming none, went to all of them.
C20_CommandPayloadOnly ==
  last.op = "remote_command" =>
    \A i \in 1..Len(out) :
      /\ out[i].event = "execute_command"
      /\ PresentFields(out[i].payload) = [command |-> last.data.command]

====
